---------------------------- MODULE Spec2Model ----------------------------
(***************************************************************************)
(* Model of octomap/occupancy.py: the OccupancyOctoMap facade and the      *)
(* OccupancyOctoNode octree it owns.                                       *)
(*                                                                         *)
(* Two kinds of numbers occur in the program and are modelled apart.       *)
(*                                                                         *)
(*  - Geometry (center, radius, width, origins, points).  The model uses   *)
(*    power-of-two resolutions and points on a dyadic grid, so that every  *)
(*    geometric quantity is an exact double; it is represented by the      *)
(*    integer  value * Scale.                                              *)
(*                                                                         *)
(*  - Occupancy values (probabilities and log-odds).  These are IEEE-754   *)
(*    doubles that go through math.log, math.pow, +, - and /, none of      *)
(*    which is exact.  A double is represented by its shortest round-trip  *)
(*    decimal (Python's repr) as a string; the program's float             *)
(*    expressions are tables of the doubles CPython computes, over the     *)
(*    values reachable within the bounds of the model.                     *)
(*                                                                         *)
(* width / 2 is the true division of Python 3.                             *)
(***************************************************************************)
EXTENDS Integers, Naturals, Sequences, FiniteSets, TLC

(***************************************************************************)
(* Bounds of the model.                                                    *)
(***************************************************************************)
MaxDepth == 2      \* largest max_depth of a map / depth argument of update
MaxUpdates == 2    \* update calls in one run
MaxCoord == 3      \* largest grid coordinate of the geometry checks, in halves

Scale == 2 ^ (MaxDepth + 1)      \* geometry: model integer = value * Scale
Half == Scale \div 2             \* 0.5
One == Scale                     \* 1.0

Centers == { <<0, 0, 0>> }
Resolutions == { 1, 2, 4 }
Priors == { "0.2", "0.5" }
Probs == { "0.3", "0.9" }              \* observations accepted by Map.update
BadProbs == { "0.0", "1.0" }           \* 1.0 is the default of Map.update
\* (0.5,0.5,0.5) (1.5,0.5,0.5) (-0.5,-0.5,-0.5) (-1,0,0) (0,0,0) and a 2-tuple
Points == { <<Half, Half, Half>>, <<3 * Half, Half, Half>>,
            <<-Half, -Half, -Half>>, <<-One, 0, 0>>, <<0, 0, 0>>, <<0, 0>> }
\* (0.5,0.5,0.5) (1.5,0.5,0.5) (-0.5,-0.5,-0.5): two octants of the cube
\* below and a point outside it
NodePoints == { <<Half, Half, Half>>, <<3 * Half, Half, Half>>,
                <<-Half, -Half, -Half>> }
\* probabilities handed to Node.update, which does not validate them
NodeProbs == Probs \cup { "1.0" }
\* geometry handed to the node operations when they are called directly
NodeOrigin == <<0, 0, 0>>
NodeWidth == 2 * One

\* arguments of the geometry functions: coordinates -0.5, 0, 0.5 .. MaxCoord/2
GridCoords == { k * Half : k \in -1..MaxCoord }
GridPoints == { <<x, y, z>> : x \in GridCoords, y \in GridCoords, z \in GridCoords }
GridOrigins == { <<0, 0, 0>>, <<-One, -One, -One>> }
GridWidths == { One, 2 * One }

(***************************************************************************)
(* Double arithmetic of the occupancy values.                              *)
(***************************************************************************)
\* math.log(p / (1 - p)) for the probabilities p the model hands to it: the
\* priors, the observations, and the probabilities children are seeded with
LogOddsTable ==
       "0.01929949964260187" :> "-3.9281879422815007"
    @@ "0.019299499642601876" :> "-3.9281879422815007"
    @@ "0.019299499642601886" :> "-3.9281879422815"
    @@ "0.019299499642601893" :> "-3.9281879422815"
    @@ "0.04390243902439026" :> "-3.0808900818942972"
    @@ "0.04390243902439028" :> "-3.080890081894297"
    @@ "0.0439024390243903" :> "-3.080890081894297"
    @@ "0.04390243902439032" :> "-3.080890081894296"
    @@ "0.07297297297297299" :> "-2.541893581161611"
    @@ "0.0967741935483871" :> "-2.2335922215070942"
    @@ "0.09677419354838715" :> "-2.233592221507094"
    @@ "0.09677419354838719" :> "-2.233592221507093"
    @@ "0.09677419354838723" :> "-2.233592221507093"
    @@ "0.15517241379310348" :> "-1.6945957207744071"
    @@ "0.2" :> "-1.3862943611198906"
    @@ "0.20000000000000004" :> "-1.3862943611198904"
    @@ "0.2000000000000001" :> "-1.38629436111989"
    @@ "0.20000000000000015" :> "-1.3862943611198897"
    @@ "0.20000000000000018" :> "-1.3862943611198895"
    @@ "0.29241877256317694" :> "-0.8836655045580782"
    @@ "0.292418772563177" :> "-0.8836655045580779"
    @@ "0.29241877256317705" :> "-0.8836655045580778"
    @@ "0.2924187725631771" :> "-0.8836655045580775"
    @@ "0.2924187725631772" :> "-0.8836655045580768"
    @@ "0.3" :> "-0.8472978603872036"
    @@ "0.49090909090909096" :> "-0.036367644170874604"
    @@ "0.490909090909091" :> "-0.036367644170874486"
    @@ "0.4909090909090911" :> "-0.036367644170874146"
    @@ "0.49090909090909113" :> "-0.03636764417087391"
    @@ "0.4909090909090912" :> "-0.0363676441708738"
    @@ "0.49090909090909124" :> "-0.03636764417087368"
    @@ "0.4909090909090913" :> "-0.036367644170873334"
    @@ "0.5" :> "0.0"
    @@ "0.6230769230769231" :> "0.5026288565618122"
    @@ "0.6230769230769232" :> "0.5026288565618126"
    @@ "0.6923076923076924" :> "0.8109302162163292"
    @@ "0.6923076923076925" :> "0.8109302162163298"
    @@ "0.7941176470588236" :> "1.3499267169490161"
    @@ "0.8966789667896679" :> "2.160856933165344"
    @@ "0.896678966789668" :> "2.1608569331653453"
    @@ "0.8966789667896681" :> "2.160856933165346"
    @@ "0.9" :> "2.1972245773362196"
    @@ "0.9529411764705882" :> "3.008154793552547"
    @@ "0.9529411764705883" :> "3.0081547935525492"
    @@ "0.972" :> "3.5471512942852343"
    @@ "0.9878048780487805" :> "4.394449154672438"
    @@ "0.9945429740791268" :> "5.205379370888761"
    @@ "0.9986301369863013" :> "6.591673732008622"

\* odds = math.pow(math.e, L); odds / (odds + 1) for the log-odds L a node of
\* the model can hold
ProbabilityTable ==
       "-0.036367644170873334" :> "0.4909090909090913"
    @@ "-0.03636764417087335" :> "0.4909090909090913"
    @@ "-0.03636764417087368" :> "0.49090909090909124"
    @@ "-0.03636764417087379" :> "0.4909090909090912"
    @@ "-0.0363676441708738" :> "0.4909090909090912"
    @@ "-0.0363676441708739" :> "0.49090909090909113"
    @@ "-0.03636764417087391" :> "0.49090909090909113"
    @@ "-0.036367644170874146" :> "0.49090909090909113"
    @@ "-0.036367644170874236" :> "0.4909090909090911"
    @@ "-0.03636764417087435" :> "0.490909090909091"
    @@ "-0.036367644170874486" :> "0.490909090909091"
    @@ "-0.03636764417087457" :> "0.490909090909091"
    @@ "-0.036367644170874604" :> "0.490909090909091"
    @@ "-0.03636764417087468" :> "0.49090909090909096"
    @@ "-0.8472978603872036" :> "0.3"
    @@ "-0.8836655045580768" :> "0.2924187725631772"
    @@ "-0.8836655045580769" :> "0.2924187725631772"
    @@ "-0.8836655045580772" :> "0.2924187725631771"
    @@ "-0.8836655045580774" :> "0.2924187725631771"
    @@ "-0.8836655045580775" :> "0.2924187725631771"
    @@ "-0.8836655045580777" :> "0.29241877256317705"
    @@ "-0.8836655045580778" :> "0.29241877256317705"
    @@ "-0.8836655045580779" :> "0.292418772563177"
    @@ "-0.883665504558078" :> "0.292418772563177"
    @@ "-0.8836655045580781" :> "0.292418772563177"
    @@ "-0.8836655045580782" :> "0.29241877256317694"
    @@ "-1.3862943611198895" :> "0.2000000000000002"
    @@ "-1.3862943611198897" :> "0.20000000000000018"
    @@ "-1.38629436111989" :> "0.20000000000000015"
    @@ "-1.3862943611198904" :> "0.2000000000000001"
    @@ "-1.3862943611198906" :> "0.20000000000000004"
    @@ "-1.6945957207744071" :> "0.15517241379310348"
    @@ "-2.233592221507093" :> "0.09677419354838723"
    @@ "-2.2335922215070934" :> "0.09677419354838719"
    @@ "-2.233592221507094" :> "0.09677419354838715"
    @@ "-2.2335922215070942" :> "0.0967741935483871"
    @@ "-2.541893581161611" :> "0.07297297297297299"
    @@ "-3.080890081894296" :> "0.04390243902439033"
    @@ "-3.0808900818942964" :> "0.04390243902439032"
    @@ "-3.080890081894297" :> "0.0439024390243903"
    @@ "-3.0808900818942972" :> "0.04390243902439028"
    @@ "-3.0808900818942977" :> "0.04390243902439026"
    @@ "-3.9281879422815" :> "0.019299499642601893"
    @@ "-3.9281879422815003" :> "0.019299499642601886"
    @@ "-3.9281879422815007" :> "0.019299499642601876"
    @@ "-3.928187942281501" :> "0.01929949964260187"
    @@ "0.0" :> "0.5"
    @@ "0.5026288565618122" :> "0.6230769230769231"
    @@ "0.5026288565618124" :> "0.6230769230769231"
    @@ "0.5026288565618126" :> "0.6230769230769232"
    @@ "0.810930216216329" :> "0.6923076923076924"
    @@ "0.8109302162163292" :> "0.6923076923076924"
    @@ "0.8109302162163297" :> "0.6923076923076925"
    @@ "0.8109302162163298" :> "0.6923076923076925"
    @@ "0.8109302162163299" :> "0.6923076923076925"
    @@ "1.3499267169490161" :> "0.7941176470588236"
    @@ "2.1608569331653436" :> "0.8966789667896679"
    @@ "2.160856933165344" :> "0.8966789667896679"
    @@ "2.160856933165345" :> "0.896678966789668"
    @@ "2.1608569331653453" :> "0.896678966789668"
    @@ "2.1608569331653458" :> "0.896678966789668"
    @@ "2.160856933165346" :> "0.8966789667896681"
    @@ "2.1972245773362196" :> "0.9"
    @@ "3.008154793552547" :> "0.9529411764705882"
    @@ "3.0081547935525483" :> "0.9529411764705882"
    @@ "3.008154793552549" :> "0.9529411764705883"
    @@ "3.0081547935525492" :> "0.9529411764705883"
    @@ "3.5471512942852343" :> "0.972"
    @@ "3.547151294285235" :> "0.972"
    @@ "3.5471512942852357" :> "0.972"
    @@ "4.394449154672438" :> "0.9878048780487805"
    @@ "4.394449154672439" :> "0.9878048780487805"
    @@ "5.205379370888761" :> "0.9945429740791268"
    @@ "5.205379370888767" :> "0.9945429740791268"
    @@ "5.2053793708887675" :> "0.9945429740791268"
    @@ "5.205379370888768" :> "0.9945429740791268"
    @@ "5.205379370888769" :> "0.9945429740791268"
    @@ "6.591673732008622" :> "0.9986301369863013"
    @@ "6.591673732008658" :> "0.9986301369863013"

\* L + l for the log-odds L of a node and the log-odds l of an observation
AddTable ==
       <<"-0.03636764417087335", "-0.8472978603872036">> :> "-0.8836655045580769"
    @@ <<"-0.03636764417087335", "2.1972245773362196">> :> "2.160856933165346"
    @@ <<"-0.03636764417087368", "-0.8472978603872036">> :> "-0.8836655045580772"
    @@ <<"-0.03636764417087368", "2.1972245773362196">> :> "2.1608569331653458"
    @@ <<"-0.03636764417087379", "-0.8472978603872036">> :> "-0.8836655045580774"
    @@ <<"-0.03636764417087379", "2.1972245773362196">> :> "2.1608569331653458"
    @@ <<"-0.0363676441708738", "-0.8472978603872036">> :> "-0.8836655045580774"
    @@ <<"-0.0363676441708738", "2.1972245773362196">> :> "2.1608569331653458"
    @@ <<"-0.0363676441708739", "-0.8472978603872036">> :> "-0.8836655045580775"
    @@ <<"-0.0363676441708739", "2.1972245773362196">> :> "2.1608569331653458"
    @@ <<"-0.03636764417087391", "-0.8472978603872036">> :> "-0.8836655045580775"
    @@ <<"-0.03636764417087391", "2.1972245773362196">> :> "2.1608569331653458"
    @@ <<"-0.036367644170874146", "-0.8472978603872036">> :> "-0.8836655045580777"
    @@ <<"-0.036367644170874146", "2.1972245773362196">> :> "2.1608569331653453"
    @@ <<"-0.036367644170874236", "-0.8472978603872036">> :> "-0.8836655045580778"
    @@ <<"-0.036367644170874236", "2.1972245773362196">> :> "2.1608569331653453"
    @@ <<"-0.03636764417087435", "-0.8472978603872036">> :> "-0.8836655045580779"
    @@ <<"-0.03636764417087435", "2.1972245773362196">> :> "2.1608569331653453"
    @@ <<"-0.036367644170874486", "-0.8472978603872036">> :> "-0.883665504558078"
    @@ <<"-0.036367644170874486", "2.1972245773362196">> :> "2.160856933165345"
    @@ <<"-0.03636764417087457", "-0.8472978603872036">> :> "-0.8836655045580781"
    @@ <<"-0.03636764417087457", "2.1972245773362196">> :> "2.160856933165345"
    @@ <<"-0.036367644170874604", "-0.8472978603872036">> :> "-0.8836655045580781"
    @@ <<"-0.036367644170874604", "2.1972245773362196">> :> "2.160856933165345"
    @@ <<"-0.03636764417087468", "-0.8472978603872036">> :> "-0.8836655045580782"
    @@ <<"-0.03636764417087468", "2.1972245773362196">> :> "2.160856933165345"
    @@ <<"-0.8472978603872036", "-0.8472978603872036">> :> "-1.6945957207744071"
    @@ <<"-0.8472978603872036", "2.1972245773362196">> :> "1.3499267169490161"
    @@ <<"-1.3862943611198897", "-0.8472978603872036">> :> "-2.2335922215070934"
    @@ <<"-1.3862943611198897", "2.1972245773362196">> :> "0.8109302162163299"
    @@ <<"-1.38629436111989", "-0.8472978603872036">> :> "-2.2335922215070934"
    @@ <<"-1.38629436111989", "2.1972245773362196">> :> "0.8109302162163297"
    @@ <<"-1.3862943611198904", "-0.8472978603872036">> :> "-2.233592221507094"
    @@ <<"-1.3862943611198904", "2.1972245773362196">> :> "0.8109302162163292"
    @@ <<"-1.3862943611198906", "-0.8472978603872036">> :> "-2.2335922215070942"
    @@ <<"-1.3862943611198906", "2.1972245773362196">> :> "0.810930216216329"
    @@ <<"-1.6945957207744071", "-0.8472978603872036">> :> "-2.541893581161611"
    @@ <<"-1.6945957207744071", "2.1972245773362196">> :> "0.5026288565618124"
    @@ <<"-2.233592221507093", "-0.8472978603872036">> :> "-3.0808900818942964"
    @@ <<"-2.233592221507093", "2.1972245773362196">> :> "-0.03636764417087335"
    @@ <<"-2.2335922215070934", "-0.8472978603872036">> :> "-3.080890081894297"
    @@ <<"-2.2335922215070934", "2.1972245773362196">> :> "-0.03636764417087379"
    @@ <<"-2.233592221507094", "-0.8472978603872036">> :> "-3.0808900818942972"
    @@ <<"-2.233592221507094", "2.1972245773362196">> :> "-0.036367644170874236"
    @@ <<"-2.2335922215070942", "-0.8472978603872036">> :> "-3.0808900818942977"
    @@ <<"-2.2335922215070942", "2.1972245773362196">> :> "-0.03636764417087468"
    @@ <<"-3.0808900818942964", "-0.8472978603872036">> :> "-3.9281879422815"
    @@ <<"-3.0808900818942964", "2.1972245773362196">> :> "-0.8836655045580768"
    @@ <<"-3.080890081894297", "-0.8472978603872036">> :> "-3.9281879422815003"
    @@ <<"-3.080890081894297", "2.1972245773362196">> :> "-0.8836655045580772"
    @@ <<"-3.0808900818942972", "-0.8472978603872036">> :> "-3.9281879422815007"
    @@ <<"-3.0808900818942972", "2.1972245773362196">> :> "-0.8836655045580777"
    @@ <<"-3.0808900818942977", "-0.8472978603872036">> :> "-3.928187942281501"
    @@ <<"-3.0808900818942977", "2.1972245773362196">> :> "-0.8836655045580781"
    @@ <<"0.0", "-0.8472978603872036">> :> "-0.8472978603872036"
    @@ <<"0.0", "2.1972245773362196">> :> "2.1972245773362196"
    @@ <<"0.810930216216329", "-0.8472978603872036">> :> "-0.03636764417087457"
    @@ <<"0.810930216216329", "2.1972245773362196">> :> "3.0081547935525483"
    @@ <<"0.8109302162163292", "-0.8472978603872036">> :> "-0.03636764417087435"
    @@ <<"0.8109302162163292", "2.1972245773362196">> :> "3.008154793552549"
    @@ <<"0.8109302162163297", "-0.8472978603872036">> :> "-0.0363676441708739"
    @@ <<"0.8109302162163297", "2.1972245773362196">> :> "3.0081547935525492"
    @@ <<"0.8109302162163298", "-0.8472978603872036">> :> "-0.03636764417087379"
    @@ <<"0.8109302162163298", "2.1972245773362196">> :> "3.0081547935525492"
    @@ <<"0.8109302162163299", "-0.8472978603872036">> :> "-0.03636764417087368"
    @@ <<"0.8109302162163299", "2.1972245773362196">> :> "3.0081547935525492"
    @@ <<"1.3499267169490161", "-0.8472978603872036">> :> "0.5026288565618126"
    @@ <<"1.3499267169490161", "2.1972245773362196">> :> "3.5471512942852357"
    @@ <<"2.1972245773362196", "-0.8472978603872036">> :> "1.3499267169490161"
    @@ <<"2.1972245773362196", "2.1972245773362196">> :> "4.394449154672439"
    @@ <<"3.008154793552547", "-0.8472978603872036">> :> "2.1608569331653436"
    @@ <<"3.008154793552547", "2.1972245773362196">> :> "5.205379370888767"
    @@ <<"3.0081547935525483", "-0.8472978603872036">> :> "2.160856933165345"
    @@ <<"3.0081547935525483", "2.1972245773362196">> :> "5.2053793708887675"
    @@ <<"3.008154793552549", "-0.8472978603872036">> :> "2.1608569331653453"
    @@ <<"3.008154793552549", "2.1972245773362196">> :> "5.205379370888768"
    @@ <<"3.0081547935525492", "-0.8472978603872036">> :> "2.1608569331653458"
    @@ <<"3.0081547935525492", "2.1972245773362196">> :> "5.205379370888769"
    @@ <<"4.394449154672438", "-0.8472978603872036">> :> "3.547151294285235"
    @@ <<"4.394449154672438", "2.1972245773362196">> :> "6.591673732008658"
    @@ <<"4.394449154672439", "-0.8472978603872036">> :> "3.5471512942852357"
    @@ <<"4.394449154672439", "2.1972245773362196">> :> "6.591673732008658"

\* the exact value of a double x as the pair <<hi, lo>> with
\* x * 2^56 = hi * 2^28 + lo and 0 <= lo < 2^28, for the doubles that are
\* compared by size (|x| < 8, a multiple of 2^-56)
FixedTable ==
       "-0.036367644170873334" :> <<-9762366, 229068289>>
    @@ "-0.03636764417087335" :> <<-9762366, 229068288>>
    @@ "-0.03636764417087368" :> <<-9762366, 229068264>>
    @@ "-0.03636764417087379" :> <<-9762366, 229068256>>
    @@ "-0.0363676441708739" :> <<-9762366, 229068248>>
    @@ "-0.036367644170874236" :> <<-9762366, 229068224>>
    @@ "-0.03636764417087435" :> <<-9762366, 229068216>>
    @@ "-0.036367644170874486" :> <<-9762366, 229068206>>
    @@ "-0.03636764417087457" :> <<-9762366, 229068200>>
    @@ "-0.03636764417087468" :> <<-9762366, 229068192>>
    @@ "-0.8472978603872036" :> <<-227444788, 128617272>>
    @@ "-0.8836655045580768" :> <<-237207153, 89250112>>
    @@ "-0.8836655045580769" :> <<-237207153, 89250104>>
    @@ "-0.8836655045580772" :> <<-237207153, 89250080>>
    @@ "-0.8836655045580774" :> <<-237207153, 89250072>>
    @@ "-0.8836655045580775" :> <<-237207153, 89250064>>
    @@ "-0.8836655045580777" :> <<-237207153, 89250048>>
    @@ "-0.8836655045580778" :> <<-237207153, 89250040>>
    @@ "-0.8836655045580779" :> <<-237207153, 89250032>>
    @@ "-0.883665504558078" :> <<-237207153, 89250024>>
    @@ "-0.8836655045580781" :> <<-237207153, 89250016>>
    @@ "-0.8836655045580782" :> <<-237207153, 89250008>>
    @@ "-1.3862943611198895" :> <<-372130559, 6054240>>
    @@ "-1.3862943611198897" :> <<-372130559, 6054224>>
    @@ "-1.38629436111989" :> <<-372130559, 6054208>>
    @@ "-1.3862943611198904" :> <<-372130559, 6054176>>
    @@ "-1.3862943611198906" :> <<-372130559, 6054160>>
    @@ "-1.6945957207744071" :> <<-454889576, 257234544>>
    @@ "-2.233592221507093" :> <<-599575347, 134671520>>
    @@ "-2.2335922215070934" :> <<-599575347, 134671488>>
    @@ "-2.233592221507094" :> <<-599575347, 134671456>>
    @@ "-2.2335922215070942" :> <<-599575347, 134671424>>
    @@ "-2.541893581161611" :> <<-682334363, 117416352>>
    @@ "-3.080890081894296" :> <<-827020135, 263288832>>
    @@ "-3.0808900818942964" :> <<-827020135, 263288800>>
    @@ "-3.080890081894297" :> <<-827020135, 263288768>>
    @@ "-3.0808900818942972" :> <<-827020135, 263288736>>
    @@ "-3.0808900818942977" :> <<-827020135, 263288704>>
    @@ "-3.9281879422815" :> <<-1054464922, 123470624>>
    @@ "-3.9281879422815003" :> <<-1054464922, 123470592>>
    @@ "-3.9281879422815007" :> <<-1054464922, 123470560>>
    @@ "-3.928187942281501" :> <<-1054464922, 123470528>>
    @@ "0.0" :> <<0, 0>>
    @@ "0.019299499642601886" :> <<5180669, 264981678>>
    @@ "0.04390243902439028" :> <<11784971, 64162624>>
    @@ "0.0439024390243903" :> <<11784971, 64162625>>
    @@ "0.07297297297297299" :> <<19588533, 74001127>>
    @@ "0.0967741935483871" :> <<25977624, 207820998>>
    @@ "0.09677419354838715" :> <<25977624, 207821002>>
    @@ "0.09677419354838719" :> <<25977624, 207821005>>
    @@ "0.09677419354838723" :> <<25977624, 207821008>>
    @@ "0.15517241379310348" :> <<41653777, 175871508>>
    @@ "0.2" :> <<53687091, 53687092>>
    @@ "0.20000000000000004" :> <<53687091, 53687094>>
    @@ "0.2000000000000001" :> <<53687091, 53687098>>
    @@ "0.20000000000000015" :> <<53687091, 53687102>>
    @@ "0.20000000000000018" :> <<53687091, 53687104>>
    @@ "0.29241877256317694" :> <<78495566, 149238488>>
    @@ "0.292418772563177" :> <<78495566, 149238492>>
    @@ "0.29241877256317705" :> <<78495566, 149238496>>
    @@ "0.2924187725631771" :> <<78495566, 149238500>>
    @@ "0.2924187725631772" :> <<78495566, 149238508>>
    @@ "0.3" :> <<80530636, 214748364>>
    @@ "0.49090909090909096" :> <<131777405, 180583856>>
    @@ "0.490909090909091" :> <<131777405, 180583860>>
    @@ "0.4909090909090911" :> <<131777405, 180583864>>
    @@ "0.49090909090909113" :> <<131777405, 180583868>>
    @@ "0.4909090909090912" :> <<131777405, 180583872>>
    @@ "0.49090909090909124" :> <<131777405, 180583876>>
    @@ "0.4909090909090913" :> <<131777405, 180583880>>
    @@ "0.5" :> <<134217728, 0>>
    @@ "0.5026288565618122" :> <<134923406, 83195840>>
    @@ "0.5026288565618124" :> <<134923406, 83195856>>
    @@ "0.5026288565618126" :> <<134923406, 83195864>>
    @@ "0.6230769230769231" :> <<167255937, 260175904>>
    @@ "0.6230769230769232" :> <<167255937, 260175912>>
    @@ "0.6923076923076924" :> <<185839931, 20648888>>
    @@ "0.6923076923076925" :> <<185839931, 20648896>>
    @@ "0.7941176470588236" :> <<213169332, 189483856>>
    @@ "0.810930216216329" :> <<217682422, 100450928>>
    @@ "0.8109302162163292" :> <<217682422, 100450944>>
    @@ "0.8109302162163297" :> <<217682422, 100450976>>
    @@ "0.8109302162163298" :> <<217682422, 100450984>>
    @@ "0.8109302162163299" :> <<217682422, 100450992>>
    @@ "0.8966789667896679" :> <<240700427, 90138840>>
    @@ "0.896678966789668" :> <<240700427, 90138848>>
    @@ "0.8966789667896681" :> <<240700427, 90138856>>
    @@ "0.9" :> <<241591910, 107374184>>
    @@ "0.9529411764705882" :> <<255803199, 66319344>>
    @@ "0.9529411764705883" :> <<255803199, 66319352>>
    @@ "0.972" :> <<260919263, 62277024>>
    @@ "0.9878048780487805" :> <<265161852, 235699424>>
    @@ "0.9945429740791268" :> <<266970596, 203615432>>
    @@ "0.9986301369863013" :> <<268067736, 52951648>>
    @@ "1.0" :> <<268435456, 0>>
    @@ "1.3499267169490161" :> <<362368193, 223014048>>
    @@ "2.1608569331653436" :> <<580050616, 55029408>>
    @@ "2.160856933165344" :> <<580050616, 55029440>>
    @@ "2.160856933165345" :> <<580050616, 55029504>>
    @@ "2.1608569331653453" :> <<580050616, 55029536>>
    @@ "2.1608569331653458" :> <<580050616, 55029568>>
    @@ "2.160856933165346" :> <<580050616, 55029600>>
    @@ "2.1972245773362196" :> <<589812981, 94396768>>
    @@ "3.008154793552547" :> <<807495403, 194847584>>
    @@ "3.0081547935525483" :> <<807495403, 194847680>>
    @@ "3.008154793552549" :> <<807495403, 194847712>>
    @@ "3.0081547935525492" :> <<807495403, 194847744>>
    @@ "3.5471512942852343" :> <<952181175, 48975264>>
    @@ "3.547151294285235" :> <<952181175, 48975296>>
    @@ "3.5471512942852357" :> <<952181175, 48975360>>
    @@ "4.394449154672438" :> <<1179625962, 188793472>>
    @@ "4.394449154672439" :> <<1179625962, 188793536>>
    @@ "5.205379370888761" :> <<1397308385, 20808512>>
    @@ "5.205379370888767" :> <<1397308385, 20808896>>
    @@ "5.2053793708887675" :> <<1397308385, 20808960>>
    @@ "5.205379370888768" :> <<1397308385, 20809024>>
    @@ "5.205379370888769" :> <<1397308385, 20809088>>
    @@ "6.591673732008622" :> <<1769438944, 14752192>>
    @@ "6.591673732008658" :> <<1769438944, 14754816>>

\* the double as a fixed-point number: value * 2^56 = hi * 2^28 + lo
Fixed(x) == FixedTable[x]

\* x < y on doubles
FLess(x, y) ==
    \/ Fixed(x)[1] < Fixed(y)[1]
    \/ Fixed(x)[1] = Fixed(y)[1] /\ Fixed(x)[2] < Fixed(y)[2]

\* what evaluating math.log(p / (1 - p)) raises: 1 - p is 0.0 for p = 1.0,
\* and math.log(0.0) is a math domain error
LogOddsExc(p) ==
    IF p = "1.0" THEN "ZeroDivisionError"
    ELSE IF p = "0.0" THEN "ValueError"
    ELSE "none"

\* math.log(p / (1 - p))
LogOdds(p) == LogOddsTable[p]

\* a + b on doubles (the += of _update_probability)
FAdd(a, b) == AddTable[<<a, b>>]

(***************************************************************************)
(* Values passed around.  An origin argument is either a tuple or, in the  *)
(* calls made by the map, the bound method self.origin itself; a call      *)
(* returns a value or raises.                                              *)
(***************************************************************************)
Tuple(t) == [kind |-> "tuple", at |-> t]
BoundMethod == [kind |-> "method", at |-> <<>>]

Return(v) == [exc |-> "none", ret |-> v]
Raise(e) == [exc |-> e, ret |-> "none"]

(***************************************************************************)
(* OccupancyOctoNode.  A node is [log_odds, children, id]; children is     *)
(* <<>> for None, else the 8 children (child i of the program at i + 1).   *)
(* id is the order of construction, which tells objects apart.             *)
(***************************************************************************)
\* the node ignores its argument and starts from the default prior 0.5
NewNode_default(prior_prob, id) ==
    [log_odds |-> LogOdds("0.5"), children |-> <<>>, id |-> id]

NewNode(prior_prob, id) ==
    [log_odds |-> LogOdds(prior_prob), children |-> <<>>, id |-> id]

is_leaf(node) == node.children = <<>>

\* the probability property: odds = math.pow(math.e, L); odds / (odds + 1)
Node_probability(node) == ProbabilityTable[node.log_odds]

\* _split without the is_leaf guard: children are constructed again
split_again(node, allocated) ==
    [node |-> [node EXCEPT !.children =
                 [i \in 1..8 |-> NewNode(Node_probability(node),
                                         allocated + i - 1)]],
     allocated |-> allocated + 8]

\* _split; allocated is the number of nodes constructed so far
split(node, allocated) ==
    IF ~ is_leaf(node)
    THEN [node |-> node, allocated |-> allocated]
    ELSE [node |-> [node EXCEPT !.children =
                       [i \in 1..8 |-> NewNode(Node_probability(node),
                                               allocated + i - 1)]],
          allocated |-> allocated + 8]

\* Node.contains: three chained comparisons joined by `and`, evaluated left
\* to right; subscripting a bound method is a TypeError, subscripting a
\* tuple past its end an IndexError
RECURSIVE contains_from(_, _, _, _)
contains_from(k, point, origin, width) ==
    IF k > 3 THEN Return(TRUE)
    ELSE IF origin.kind # "tuple" THEN Raise("TypeError")
    ELSE IF k > Len(point) THEN Raise("IndexError")
    ELSE IF ~ (origin.at[k] <= point[k] /\ point[k] < origin.at[k] + width)
    THEN Return(FALSE)
    ELSE contains_from(k + 1, point, origin, width)

Node_contains(point, origin, width) == contains_from(1, point, origin, width)

\* index with > for >=: a point on a dividing plane goes to the lower half
index_gt(point, origin, width) ==
    LET c == Node_contains(point, origin, width) IN
    IF c.exc # "none" THEN c
    ELSE IF ~ c.ret THEN Raise("ValueError")
    ELSE Return((IF point[1] > origin.at[1] + width \div 2 THEN 1 ELSE 0)
              + (IF point[2] > origin.at[2] + width \div 2 THEN 2 ELSE 0)
              + (IF point[3] > origin.at[3] + width \div 2 THEN 4 ELSE 0))

\* Node.index
index(point, origin, width) ==
    LET c == Node_contains(point, origin, width) IN
    IF c.exc # "none" THEN c
    ELSE IF ~ c.ret THEN Raise("ValueError")
    ELSE Return((IF point[1] >= origin.at[1] + width \div 2 THEN 1 ELSE 0)
              + (IF point[2] >= origin.at[2] + width \div 2 THEN 2 ELSE 0)
              + (IF point[3] >= origin.at[3] + width \div 2 THEN 4 ELSE 0))

\* index & bit, for bit in 1, 2, 4
BitSet(i, bit) == (i \div bit) % 2 = 1

\* Node.origin
Node_origin(i, origin, width) ==
    LET hwidth == width \div 2 IN
    Tuple(<< origin.at[1] + (IF BitSet(i, 1) THEN hwidth ELSE 0),
             origin.at[2] + (IF BitSet(i, 2) THEN hwidth ELSE 0),
             origin.at[3] + (IF BitSet(i, 4) THEN hwidth ELSE 0) >>)

\* _update_probability with = for +=: the observation replaces the estimate
update_probability_assign(node, probability) ==
    IF LogOddsExc(probability) # "none"
    THEN [node |-> node, exc |-> LogOddsExc(probability)]
    ELSE [node |-> [node EXCEPT !.log_odds = LogOdds(probability)],
          exc |-> "none"]

\* _update_probability
update_probability(node, probability) ==
    IF LogOddsExc(probability) # "none"
    THEN [node |-> node, exc |-> LogOddsExc(probability)]
    ELSE [node |-> [node EXCEPT !.log_odds = FAdd(@, LogOdds(probability))],
          exc |-> "none"]

RECURSIVE Node_update(_, _, _, _, _, _, _)

\* Node.update that splits before it looks at max_depth
Node_update_eager(node, allocated, point, probability, origin, width, max_depth) ==
    LET s == split(node, allocated) IN
    IF max_depth = 0
    THEN LET u == update_probability(s.node, probability) IN
         [node |-> u.node, allocated |-> s.allocated, exc |-> u.exc]
    ELSE LET child_index == index(point, origin, width) IN
         IF child_index.exc # "none"
         THEN [node |-> s.node, allocated |-> s.allocated,
               exc |-> child_index.exc]
         ELSE LET r == Node_update(s.node.children[child_index.ret + 1],
                                   s.allocated, point, probability,
                                   Node_origin(child_index.ret, origin, width),
                                   width \div 2, max_depth - 1)
              IN  [node |-> [s.node EXCEPT
                               !.children[child_index.ret + 1] = r.node],
                   allocated |-> r.allocated, exc |-> r.exc]

\* Node.update.  The result carries the node as the call leaves it, also
\* when it raises: a split made before the exception stays.
Node_update(node, allocated, point, probability, origin, width, max_depth) ==
    IF max_depth = 0
    THEN LET u == update_probability(node, probability) IN
         [node |-> u.node, allocated |-> allocated, exc |-> u.exc]
    ELSE LET s == IF is_leaf(node) THEN split(node, allocated)
                  ELSE [node |-> node, allocated |-> allocated]
             child_index == index(point, origin, width)
         IN  IF child_index.exc # "none"
             THEN [node |-> s.node, allocated |-> s.allocated,
                   exc |-> child_index.exc]
             ELSE LET r == Node_update(s.node.children[child_index.ret + 1],
                                       s.allocated, point, probability,
                                       Node_origin(child_index.ret, origin, width),
                                       width \div 2, max_depth - 1)
                  IN  [node |-> [s.node EXCEPT
                                   !.children[child_index.ret + 1] = r.node],
                       allocated |-> r.allocated, exc |-> r.exc]

\* Node.probability_at
RECURSIVE probability_at(_, _, _, _)
probability_at(node, point, origin, width) ==
    IF is_leaf(node) THEN Return(Node_probability(node))
    ELSE LET child_index == index(point, origin, width) IN
         IF child_index.exc # "none" THEN child_index
         ELSE probability_at(node.children[child_index.ret + 1], point,
                             Node_origin(child_index.ret, origin, width),
                             width \div 2)

(***************************************************************************)
(* State: the fields of one OccupancyOctoMap and the tree under its root,  *)
(* and a record of the calls made on them.                                 *)
(***************************************************************************)
VARIABLES
    center,       \* self._center
    resolution,   \* self._resolution
    max_depth,    \* self._max_depth
    prior_prob,   \* the prior_prob the map was constructed with
    root,         \* self.root and the nodes below it
    allocated,    \* number of OccupancyOctoNode objects constructed
    updates,      \* number of update calls made so far
    last          \* the latest call: arguments, outcome, tree before it

vars == <<center, resolution, max_depth, prior_prob, root, allocated, updates, last>>

map == <<center, resolution, max_depth, prior_prob>>

(***************************************************************************)
(* OccupancyOctoMap                                                        *)
(***************************************************************************)
\* math.pow(base, n) for the bases and exponents of the model, times Scale
Pow(base, n) == IF n >= 0 THEN Scale * base ^ n ELSE Scale \div base ^ (0 - n)

radius == Pow(resolution, max_depth - 1)

width == Pow(resolution, max_depth)

Map_contains(point) ==
    IF Len(point) # 3 THEN Raise("ValueError")
    ELSE Return(\A k \in 1..3 : /\ center[k] - radius <= point[k]
                                /\ point[k] < center[k] + radius)

Map_origin == << center[1] - radius, center[2] - radius, center[3] - radius >>

\* Map.update: the third argument of root.update is self.origin, the bound
\* method, not the tuple self.origin() returns
Map_update(point, probability) ==
    IF Len(point) # 3
    THEN [node |-> root, allocated |-> allocated, exc |-> "ValueError"]
    ELSE IF ~ (FLess("0.0", probability) /\ FLess(probability, "1.0"))
    THEN [node |-> root, allocated |-> allocated, exc |-> "ValueError"]
    ELSE Node_update(root, allocated, point, probability, BoundMethod,
                     width, max_depth)

\* Map.probability: self.origin is passed uncalled here too
Map_probability(point) ==
    LET c == Map_contains(point) IN
    IF c.exc # "none" THEN c
    ELSE IF ~ c.ret THEN Raise("ValueError")
    ELSE probability_at(root, point, BoundMethod, width)

(***************************************************************************)
(* Construction and the calls.                                             *)
(***************************************************************************)
Init ==
    /\ center \in Centers
    /\ resolution \in Resolutions
    /\ max_depth \in 0..MaxDepth
    /\ prior_prob \in Priors
    /\ root = NewNode(prior_prob, 0)
    /\ allocated = 1
    /\ updates = 0
    /\ last = [op |-> "construct", exc |-> "none", ret |-> "none", before |-> <<>>]

MapUpdate(point, probability) ==
    /\ updates < MaxUpdates
    /\ LET r == Map_update(point, probability) IN
       /\ root' = r.node
       /\ allocated' = r.allocated
       /\ updates' = updates + 1
       /\ last' = [op |-> "Map.update", point |-> point,
                   probability |-> probability, max_depth |-> max_depth,
                   exc |-> r.exc, ret |-> "none", before |-> root]
    /\ UNCHANGED map

MapProbability(point) ==
    /\ LET r == Map_probability(point) IN
       last' = [op |-> "Map.probability", point |-> point,
                exc |-> r.exc, ret |-> r.ret, before |-> root]
    /\ UNCHANGED <<map, root, allocated, updates>>

MapContains(point) ==
    /\ LET r == Map_contains(point) IN
       last' = [op |-> "Map.contains", point |-> point,
                exc |-> r.exc, ret |-> r.ret, before |-> root]
    /\ UNCHANGED <<map, root, allocated, updates>>

\* root.update(point, probability, origin, width, depth), called directly
NodeUpdate(point, probability, depth) ==
    /\ updates < MaxUpdates
    /\ LET r == Node_update(root, allocated, point, probability,
                            Tuple(NodeOrigin), NodeWidth, depth) IN
       /\ root' = r.node
       /\ allocated' = r.allocated
       /\ updates' = updates + 1
       /\ last' = [op |-> "Node.update", point |-> point,
                   probability |-> probability, max_depth |-> depth,
                   exc |-> r.exc, ret |-> "none", before |-> root]
    /\ UNCHANGED map

\* root.probability_at(point, origin, width), called directly
NodeProbabilityAt(point) ==
    /\ LET r == probability_at(root, point, Tuple(NodeOrigin), NodeWidth) IN
       last' = [op |-> "Node.probability_at", point |-> point,
                exc |-> r.exc, ret |-> r.ret, before |-> root]
    /\ UNCHANGED <<map, root, allocated, updates>>

\* root._split(), called directly
NodeSplit ==
    /\ LET s == split(root, allocated) IN
       /\ root' = s.node
       /\ allocated' = s.allocated
    /\ last' = [op |-> "Node._split", exc |-> "none", ret |-> "none",
                before |-> root, allocated |-> allocated]
    /\ UNCHANGED <<map, updates>>

\* the facade
Next ==
    \/ \E point \in Points, probability \in Probs \cup BadProbs :
          MapUpdate(point, probability)
    \/ \E point \in Points : MapProbability(point)
    \/ \E point \in Points : MapContains(point)

Spec == Init /\ [][Next]_vars

\* the facade together with the node operations it is built on
NextNode ==
    \/ \E point \in NodePoints, probability \in NodeProbs :
          MapUpdate(point, probability)
    \/ \E point \in NodePoints : MapProbability(point)
    \/ \E point \in NodePoints : MapContains(point)
    \/ \E point \in NodePoints, probability \in NodeProbs,
          depth \in 0..MaxDepth : NodeUpdate(point, probability, depth)
    \/ \E point \in NodePoints : NodeProbabilityAt(point)

\* a few maps are enough here: the node operations take their geometry as
\* arguments, and the facade either fuses at the root (max_depth 0) or
\* descends (max_depth 1)
InitNode == Init /\ resolution = 2 /\ max_depth <= 1 /\ prior_prob = "0.2"

SpecNode == InitNode /\ [][NextNode]_vars

\* the node operations and a direct call of the private _split, as the tests do
NextSplit ==
    \/ NodeSplit
    \/ \E point \in NodePoints, probability \in NodeProbs,
          depth \in 0..MaxDepth : NodeUpdate(point, probability, depth)
    \/ \E point \in NodePoints : NodeProbabilityAt(point)

\* the map around the node plays no part here
InitSplit == Init /\ resolution = 2 /\ max_depth = 0

SpecSplit == InitSplit /\ [][NextSplit]_vars

\* the pure geometry of a node, applied to arguments on a grid
NodeIndex(point, origin, w) ==
    /\ LET r == index(point, Tuple(origin), w) IN
       last' = [op |-> "Node.index", point |-> point, origin |-> origin,
                width |-> w, exc |-> r.exc, ret |-> r.ret, before |-> root]
    /\ UNCHANGED <<map, root, allocated, updates>>

NodeContains(point, origin, w) ==
    /\ LET r == Node_contains(point, Tuple(origin), w) IN
       last' = [op |-> "Node.contains", point |-> point, origin |-> origin,
                width |-> w, exc |-> r.exc, ret |-> r.ret, before |-> root]
    /\ UNCHANGED <<map, root, allocated, updates>>

NodeOriginOf(i, origin, w) ==
    /\ LET r == Node_origin(i, Tuple(origin), w) IN
       last' = [op |-> "Node.origin", index |-> i, origin |-> origin,
                width |-> w, exc |-> "none", ret |-> r.at, before |-> root]
    /\ UNCHANGED <<map, root, allocated, updates>>

NextIndex ==
    \/ \E point \in GridPoints, origin \in GridOrigins, w \in GridWidths :
          NodeIndex(point, origin, w)
    \/ \E point \in GridPoints, origin \in GridOrigins, w \in GridWidths :
          NodeContains(point, origin, w)
    \/ \E i \in 0..7, origin \in GridOrigins, w \in GridWidths :
          NodeOriginOf(i, origin, w)

InitIndex == InitSplit

SpecIndex == InitIndex /\ [][NextIndex]_vars

(***************************************************************************)
(* Properties                                                              *)
(***************************************************************************)
\* Map.contains(point) returns True
InMap(point) == Map_contains(point) = Return(TRUE)

\* the leaf whose cube contains point, in a tree over [origin, origin + w)
RECURSIVE LeafAt(_, _, _, _)
LeafAt(node, point, origin, w) ==
    IF is_leaf(node) THEN node
    ELSE LET i == index(point, origin, w).ret IN
         LeafAt(node.children[i + 1], point, Node_origin(i, origin, w), w \div 2)

\* point lies in the cube [origin(), origin() + width) of the root
InRoot(point) == Node_contains(point, Tuple(Map_origin), width) = Return(TRUE)

\* the cell of the map's finest depth that holds point
Cell(point) ==
    [k \in 1..3 |-> (point[k] - Map_origin[k]) \div (width \div 2 ^ max_depth)]

\* |x - y| <= tol / 2^56 on doubles
Close(x, y, tol) ==
    LET d == Fixed(x)[1] - Fixed(y)[1]
        e == d * 2 ^ 28 + Fixed(x)[2] - Fixed(y)[2]
    IN  d \in {-1, 0, 1} /\ e <= tol /\ 0 - e <= tol

\* leaf / internal structure of a tree, without the log-odds
RECURSIVE Shape(_)
Shape(node) ==
    IF is_leaf(node) THEN <<>> ELSE [i \in 1..8 |-> Shape(node.children[i])]

\* shape b is shape a with some leaves split, each at a level below `remaining`
RECURSIVE Grown(_, _, _)
Grown(a, b, remaining) ==
    IF b = <<>> THEN a = <<>>
    ELSE /\ a = <<>> => remaining > 0
         /\ \A i \in 1..8 :
              Grown(IF a = <<>> THEN <<>> ELSE a[i], b[i], remaining - 1)

\* C1: Map.update(point, p) with a contained point and 0 < p < 1 completes
\* without raising on a map of any max_depth, and Map.probability(point)
\* right after it returns sigmoid(L + logit(p)), L being the log-odds of the
\* leaf that answered for point before the update.
C1_UpdateThenProbability ==
    (last.op = "Map.update" /\ last.probability \in Probs /\ InMap(last.point))
    => /\ last.exc = "none"
       /\ Map_probability(last.point) =
            Return(ProbabilityTable[
                FAdd(LeafAt(last.before, last.point, Tuple(Map_origin), width).log_odds,
                     LogOdds(last.probability))])

\* C2 as claimed: with no update made, Map.probability(p) returns exactly
\* prior_prob for every contained point p.
C2_ExactPrior ==
    (last.op = "Map.probability" /\ updates = 0 /\ InMap(last.point))
    => last.exc = "none" /\ last.ret = prior_prob

\* C2 as amended: with no update made, Map.probability(p) returns for every
\* contained point the probability property of a node constructed with
\* prior_prob, sigmoid(logit(prior_prob)) in double arithmetic, which is
\* within 2^-52 of prior_prob (and is prior_prob itself for 0.5).
C2_PriorUpToRounding ==
    (last.op = "Map.probability" /\ updates = 0 /\ InMap(last.point))
    => /\ last.exc = "none"
       /\ last.ret = ProbabilityTable[LogOdds(prior_prob)]
       /\ Close(last.ret, prior_prob, 2 ^ 4)
       /\ prior_prob = "0.5" => last.ret = "0.5"

\* C2 witness: a query on a fresh map whose answer is not the prior itself
C2_Witness ==
    /\ last.op = "Map.probability" /\ updates = 0 /\ InMap(last.point)
    /\ last.exc = "none" /\ last.ret # prior_prob

\* C3: an update (of the map or of a node) that fails with the
\* invalid-argument error leaves the tree exactly as it was.
C3_FailedUpdateLeavesTree ==
    (last.op \in {"Map.update", "Node.update"} /\ last.exc = "ValueError")
    => root = last.before

\* C4: Map.probability(point) fails iff Map.contains(point) is false, only
\* ever with the invalid-argument error, and for a contained point returns
\* the estimate of the leaf whose cube contains the point.
C4_ProbabilityFailsIffOutside ==
    last.op = "Map.probability"
    => /\ (last.exc # "none") <=> ~ InMap(last.point)
       /\ last.exc \in {"none", "ValueError"}
       /\ InMap(last.point) =>
            last.ret = Node_probability(
                          LeafAt(root, last.point, Tuple(Map_origin), width))

\* C5: Map.update at p leaves Map.probability(y) as it was for every
\* contained y in another cell of the finest depth (p and y both in the cube
\* of the root, which the cells divide).
C5_UpdateIsLocal ==
    (last.op = "Map.update" /\ InMap(last.point) /\ InRoot(last.point))
    => \A y \in Points :
         (InMap(y) /\ InRoot(y) /\ Cell(y) # Cell(last.point))
         => probability_at(root, y, BoundMethod, width)
              = probability_at(last.before, y, BoundMethod, width)

\* x lies in the half-open cube [o, o + w) on all three axes
InCube(x, o, w) == \A k \in 1..3 : o[k] <= x[k] /\ x[k] < o[k] + w

\* x lies in the cube of child i of the node over [o, o + w)
InChild(x, i, o, w) == InCube(x, Node_origin(i, Tuple(o), w).at, w \div 2)

\* C6: for x inside [O, O+W) index(x, O, W) is the one i in 0..7 whose child
\* cube [origin(i,O,W), origin(i,O,W) + W/2) holds x; no child cube holds a
\* point outside [O, O+W); index raises the invalid-argument error exactly
\* for the points outside.
C6_IndexIsOctant ==
    last.op = "Node.index"
    => IF InCube(last.point, last.origin, last.width)
       THEN /\ last.exc = "none"
            /\ last.ret \in 0..7
            /\ \A i \in 0..7 :
                 InChild(last.point, i, last.origin, last.width) <=> i = last.ret
       ELSE /\ last.exc = "ValueError"
            /\ \A i \in 0..7 : ~ InChild(last.point, i, last.origin, last.width)

\* C6 witness: a point on the dividing plane of every axis, indexed 7
C6_Witness ==
    /\ last.op = "Node.index" /\ last.exc = "none" /\ last.ret = 7
    /\ \A k \in 1..3 : last.point[k] = last.origin[k] + last.width \div 2

\* C7: radius is width / 2, and every point Map.contains accepts lies in the
\* cube [origin(), origin() + width) of the root.
C7_RadiusIsHalfWidth ==
    /\ 2 * radius = width
    /\ \A p \in Points :
         InMap(p) => Node_contains(p, Tuple(Map_origin), width) = Return(TRUE)

\* C8: _split on a node that is already internal changes nothing: the same 8
\* child objects, with the log-odds they have accumulated, and no new node.
C8_SplitIdempotent ==
    (last.op = "Node._split" /\ ~ is_leaf(last.before))
    => root = last.before /\ allocated = last.allocated

\* C8 witness: a second _split after the children have received different
\* observations
C8_Witness ==
    /\ last.op = "Node._split" /\ ~ is_leaf(last.before)
    /\ \E i, j \in 1..8 :
         last.before.children[i].log_odds # last.before.children[j].log_odds

\* the freshly constructed root after update(p1) with remaining depth 0
FirstFused(p1) ==
    Node_update(NewNode(prior_prob, 0), 1, NodeOrigin, p1,
                Tuple(NodeOrigin), NodeWidth, 0).node

\* the run so far is update(p1) then update(last.probability), both with
\* remaining depth 0 on the freshly constructed root
TwoFused(p1) ==
    /\ updates = 2 /\ p1 \in Probs
    /\ last.op = "Node.update" /\ last.max_depth = 0 /\ last.exc = "none"
    /\ last.probability \in Probs
    /\ last.before = FirstFused(p1)

\* (logit(a) + logit(b)) + logit(c)
Fused(a, b, c) == FAdd(FAdd(LogOdds(a), LogOdds(b)), LogOdds(c))

\* C9 as claimed: the log-odds are logit(prior) + logit(p1) + logit(p2), and
\* the same value results from the two updates in the opposite order.
C9_OrderIndependent ==
    \A p1 \in Probs : TwoFused(p1)
    => /\ root.log_odds = Fused(prior_prob, p1, last.probability)
       /\ root.log_odds = Fused(prior_prob, last.probability, p1)

\* C9 as amended: the log-odds are (logit(prior) + logit(p1)) + logit(p2),
\* added in that order in double arithmetic; the opposite order gives a value
\* that agrees up to the rounding of the two additions (here within 2^-47),
\* not always the same double.
C9_OrderUpToRounding ==
    \A p1 \in Probs : TwoFused(p1)
    => /\ root.log_odds = Fused(prior_prob, p1, last.probability)
       /\ Close(root.log_odds, Fused(prior_prob, last.probability, p1), 2 ^ 9)

\* C9 witness: two fusions whose opposite order gives another double
C9_Witness ==
    \E p1 \in Probs :
       /\ TwoFused(p1)
       /\ root.log_odds # Fused(prior_prob, last.probability, p1)

=============================================================================
